---------------------------- MODULE Spec2Model ----------------------------
(***************************************************************************)
(* A model of advanced-vector/vector.h: RawMemory<T> (an owner of one raw  *)
(* region) and Vector<T> (a growable sequence built on it).                *)
(*                                                                         *)
(* The heap is a set of regions; a region is a row of slots, each slot     *)
(* either raw storage (NoObj) or a live T.  Every operation of Vector is   *)
(* one action; the element type's own operations may throw, which is an    *)
(* input of the action: the fuse f names the throwing call (0: none).      *)
(***************************************************************************)
EXTENDS Integers, Sequences, FiniteSets, TLC

\* ------------------------------------------------------------------ bounds
MaxCap == 4        \* the capacities of all Vectors together stay within MaxCap

\* --------------------------------------------------------------- constants
Vecs == {"a", "b"}                 \* the Vector objects of the program
Regions == 1..(Cardinality(Vecs) + 1)   \* one region each and one being built
Values == {0, 1}                   \* element values (the code never inspects one)
NULL == 0                          \* T *buffer_ = nullptr
NoObj == -1                        \* a slot of raw storage, no live object
Moved == -2                        \* a live T that has been moved from
DefaultVal == 0                    \* a value-initialised T
\* The two kinds of element type the relocation policy tells apart:
\* "nothrow_move": moves cannot throw and empty their source, copies can throw;
\* "copy_only": no noexcept move, every move is a copy and can throw.
Kinds == {"nothrow_move", "copy_only"}
\* the fuse of a call that makes at most n throwing calls of T
Fuses(n) == 0..n

VARIABLES
    heap,    \* region -> [live, cap, slots]
    vec,     \* Vector object -> [alive, buffer, capacity, size]
    err,     \* lifetime errors of the last call (leaks, double destroys, ...)
    tkind,   \* the kind of the element type T
    last     \* the last call: its arguments, outcome and the state before it

vars == <<heap, vec, err, tkind, last>>

\* a local variable: F applied to the value of e
Bind(e, F(_)) == F(e)

\* ------------------------------------------------------------- the heap
FreeRegion == [live |-> FALSE, cap |-> 0, slots |-> <<>>]
EmptyRawMemory == [buffer |-> NULL, capacity |-> 0]
NoVector == [alive |-> FALSE, buffer |-> NULL, capacity |-> 0, size |-> 0]
DefaultVector == [alive |-> TRUE, buffer |-> NULL, capacity |-> 0, size |-> 0]

\* A context threads the heap through the calls of one operation:
\* ok = FALSE while an exception is propagating, f is the fuse, n counts the
\* calls of T made so far that may throw.
Ctx(h, e, f) == [heap |-> h, err |-> e, f |-> f, ok |-> TRUE, n |-> 0]

Flag(c, e) == [c EXCEPT !.err = @ \cup {e}]

FlagIf(c, cond, e) == IF cond THEN Flag(c, e) ELSE c

Get(c, r, i) == c.heap[r].slots[i + 1]

Put(c, r, i, val) == [c EXCEPT !.heap[r].slots[i + 1] = val]

\* One call that may throw: the fuse burns down, and at 1 the call throws.
Tick(c) ==
    IF c.f = 1 THEN [c EXCEPT !.ok = FALSE, !.f = 0, !.n = c.n + 1]
    ELSE IF c.f = 0 THEN [c EXCEPT !.n = c.n + 1]
    ELSE [c EXCEPT !.f = c.f - 1, !.n = c.n + 1]

\* RawMemory::Allocate: operator new, nullptr for n = 0.
AllocateRegion(h, n) ==
    IF n = 0 THEN NULL
    ELSE CHOOSE r \in Regions : ~h[r].live /\ \A q \in Regions : q < r => h[q].live

Allocate(c, n) ==
    IF n = 0 THEN c
    ELSE [c EXCEPT !.heap[AllocateRegion(c.heap, n)] =
                [live |-> TRUE, cap |-> n, slots |-> [i \in 1..n |-> NoObj]]]

\* RawMemory::Deallocate: operator delete; deleting nullptr does nothing.
\* Live objects in the region are lost without their destructor having run.
Deallocate(c, r) ==
    IF r = NULL THEN c
    ELSE IF ~c.heap[r].live THEN Flag(c, "double_free")
    ELSE FlagIf([c EXCEPT !.heap[r] = FreeRegion],
                \E i \in 1..c.heap[r].cap : c.heap[r].slots[i] # NoObj,
                "leak")

\* ------------------------------------------------- the element type T
MoveThrows == tkind = "copy_only"

\* placement new of a T holding val in slot i of region r
ConstructAt(c, r, i, val, throws) ==
    IF ~c.ok THEN c
    ELSE IF throws /\ c.f = 1 THEN Tick(c)
    ELSE Put(FlagIf(IF throws THEN Tick(c) ELSE c,
                    Get(c, r, i) # NoObj, "construct_over_live"),
             r, i, val)

\* assignment to the live T in slot i of region r
AssignAt(c, r, i, val, throws) ==
    IF ~c.ok THEN c
    ELSE IF throws /\ c.f = 1 THEN Tick(c)
    ELSE Put(FlagIf(IF throws THEN Tick(c) ELSE c,
                    Get(c, r, i) = NoObj, "assign_to_raw"),
             r, i, val)

\* reading the T in a slot (the source of a copy or a move)
Read(c, r, i) == Get(c, r, i)

Source(c, r, i) == FlagIf(c, c.ok /\ Get(c, r, i) = NoObj, "read_raw")

\* what a move leaves in its source
AfterMove(c, r, i) == IF MoveThrows \/ ~c.ok THEN c ELSE Put(c, r, i, Moved)

CopyConstruct(c, rd, id, rs, is) ==
    ConstructAt(Source(c, rs, is), rd, id, Read(c, rs, is), TRUE)

MoveConstruct(c, rd, id, rs, is) ==
    AfterMove(ConstructAt(Source(c, rs, is), rd, id, Read(c, rs, is), MoveThrows), rs, is)

CopyAssign(c, rd, id, rs, is) ==
    AssignAt(Source(c, rs, is), rd, id, Read(c, rs, is), TRUE)

MoveAssign(c, rd, id, rs, is) ==
    AfterMove(AssignAt(Source(c, rs, is), rd, id, Read(c, rs, is), MoveThrows), rs, is)

\* std::destroy_n(r + o, n)
DestroyN(c, r, o, n) ==
    IF n = 0 THEN c
    ELSE FlagIf([c EXCEPT !.heap[r].slots =
                     [i \in DOMAIN @ |-> IF (i - 1) \in o..(o + n - 1) THEN NoObj ELSE @[i]]],
                \E i \in o..(o + n - 1) : Get(c, r, i) = NoObj,
                "destroy_raw")

\* ------------------------------------------------- <memory>, <algorithm>
\* std::uninitialized_copy_n(rs + so, n, rd + do): on a throw the copies made
\* so far are destroyed before the exception leaves.
RECURSIVE UninitCopyFrom(_, _, _, _, _, _, _)
UninitCopyFrom(c, rs, so, n, rd, do, j) ==
    IF j = n THEN c
    ELSE Bind(CopyConstruct(c, rd, do + j, rs, so + j),
              LAMBDA t : IF t.ok THEN UninitCopyFrom(t, rs, so, n, rd, do, j + 1)
                         ELSE DestroyN(t, rd, do, j))

\* an uninitialized copy that leaves the copies it made when one throws
RECURSIVE CopyFromLeavesCopies(_, _, _, _, _, _, _)
CopyFromLeavesCopies(c, rs, so, n, rd, do, j) ==
    IF j = n \/ ~c.ok THEN c
    ELSE CopyFromLeavesCopies(CopyConstruct(c, rd, do + j, rs, so + j),
                              rs, so, n, rd, do, j + 1)

UninitializedCopyNLeavesCopies(c, rs, so, n, rd, do) ==
    CopyFromLeavesCopies(c, rs, so, n, rd, do, 0)

UninitializedCopyN(c, rs, so, n, rd, do) ==
    IF ~c.ok THEN c ELSE UninitCopyFrom(c, rs, so, n, rd, do, 0)

\* std::uninitialized_move_n(rs + so, n, rd + do)
RECURSIVE UninitMoveFrom(_, _, _, _, _, _, _)
UninitMoveFrom(c, rs, so, n, rd, do, j) ==
    IF j = n THEN c
    ELSE Bind(MoveConstruct(c, rd, do + j, rs, so + j),
              LAMBDA t : IF t.ok THEN UninitMoveFrom(t, rs, so, n, rd, do, j + 1)
                         ELSE DestroyN(t, rd, do, j))

UninitializedMoveN(c, rs, so, n, rd, do) ==
    IF ~c.ok THEN c ELSE UninitMoveFrom(c, rs, so, n, rd, do, 0)

\* std::uninitialized_value_construct_n(r + o, n)
RECURSIVE UninitValueFrom(_, _, _, _, _)
UninitValueFrom(c, r, o, n, j) ==
    IF j = n THEN c
    ELSE Bind(ConstructAt(c, r, o + j, DefaultVal, TRUE),
              LAMBDA t : IF t.ok THEN UninitValueFrom(t, r, o, n, j + 1)
                         ELSE DestroyN(t, r, o, j))

UninitializedValueConstructN(c, r, o, n) ==
    IF ~c.ok THEN c ELSE UninitValueFrom(c, r, o, n, 0)

\* std::copy_n(rs + so, n, rd + do): assignments, front to back
RECURSIVE CopyN(_, _, _, _, _, _)
CopyN(c, rs, so, n, rd, do) ==
    IF ~c.ok \/ n = 0 THEN c
    ELSE CopyN(CopyAssign(c, rd, do, rs, so), rs, so + 1, n - 1, rd, do + 1)

\* std::move(r + first, r + lst, r + dfirst): move assignments, front to back
RECURSIVE StdMove(_, _, _, _, _)
StdMove(c, r, first, lst, dfirst) ==
    IF ~c.ok \/ first >= lst THEN c
    ELSE StdMove(MoveAssign(c, r, dfirst, r, first), r, first + 1, lst, dfirst + 1)

\* std::move_backward(r + first, r + lst, r + dlast): back to front
RECURSIVE MoveBackward(_, _, _, _, _)
MoveBackward(c, r, first, lst, dlast) ==
    IF ~c.ok \/ first >= lst THEN c
    ELSE MoveBackward(MoveAssign(c, r, dlast - 1, r, lst - 1), r, first, lst - 1, dlast - 1)

\* ---------------------------------------------------------- RawMemory<T>
\* explicit RawMemory(size_t capacity)
RawMemoryCtor(c, n) ==
    [c |-> Allocate(c, n),
     rm |-> [buffer |-> AllocateRegion(c.heap, n), capacity |-> n]]

\* ~RawMemory()
RawMemoryDtor(c, rm) == Deallocate(c, rm.buffer)

\* void RawMemory::Swap(RawMemory &other)
RawMemorySwap(this, other) == [this |-> other, other |-> this]

\* a move constructor that copies the members and leaves other holding its region
RawMemoryMoveCtorKeepsSource(other) == [this |-> other, other |-> other]

\* RawMemory(RawMemory &&other): a default-initialised owner swapped with other
RawMemoryMoveCtor(other) == RawMemorySwap(EmptyRawMemory, other)

\* RawMemory &operator=(RawMemory &&rhs): same tells whether this == &rhs.
\* buffer_ is released and then swapped into rhs: when this held a region,
\* rhs leaves holding one that has been released.
RawMemoryMoveAssign(c, this, rhs, same) ==
    IF same THEN [c |-> c, this |-> this, rhs |-> this]
    ELSE Bind(RawMemorySwap(this, rhs),
              LAMBDA sw : [c |-> FlagIf(Deallocate(c, this.buffer),
                                        this.buffer # NULL, "dangling_owner"),
                           this |-> sw.this, rhs |-> sw.other])

\* std::swap(x, y) on two RawMemory: tmp(move(x)); x = move(y); y = move(tmp)
StdSwapRawMemory(c, x, y, same) ==
    Bind(RawMemoryMoveCtor(x), LAMBDA m1 :                \* this: tmp, other: x
    Bind(RawMemoryMoveAssign(c, m1.other, IF same THEN m1.other ELSE y, same),
         LAMBDA m2 :                                      \* x = move(y)
    Bind(RawMemoryMoveAssign(m2.c, m2.rhs, m1.this, FALSE),
         LAMBDA m3 :                                      \* y = move(tmp)
    [c |-> RawMemoryDtor(m3.c, m3.rhs),
     x |-> IF same THEN m3.this ELSE m2.this,
     y |-> m3.this])))

\* ------------------------------------------------------------- Vector<T>
Data(vr) == [buffer |-> vr.buffer, capacity |-> vr.capacity]

WithData(vr, rm) == [vr EXCEPT !.buffer = rm.buffer, !.capacity = rm.capacity]

\* the values of the elements [0, size) of a Vector
Contents(h, vr) == [i \in 1..vr.size |-> h[vr.buffer].slots[i]]

\* void Vector::Swap(Vector &other)
VectorSwap(c, this, other, same) ==
    Bind(StdSwapRawMemory(c, Data(this), Data(other), same), LAMBDA sw :
    [c |-> sw.c,
     this |-> [WithData(this, sw.x) EXCEPT !.size = other.size],
     other |-> [WithData(other, sw.y) EXCEPT !.size = this.size]])

\* std::is_nothrow_move_constructible_v<T> || !std::is_copy_constructible_v<T>
RelocateByMove == tkind = "nothrow_move"

\* the tail of both relocations: destroy the old elements, swap the regions
DestroyAndReplace(c, vr, new_data) ==
    IF ~c.ok THEN [c |-> c, vr |-> vr, new_data |-> new_data]
    ELSE [c |-> DestroyN(c, vr.buffer, 0, vr.size),
          vr |-> WithData(vr, new_data),
          new_data |-> Data(vr)]

\* a relocation that replaces the region without moving the elements over
ReplaceWithoutRelocating(c, vr, new_data) == DestroyAndReplace(c, vr, new_data)

\* void Vector::MoveOrCopyDataAndReplace(RawMemory<T> &&new_data)
MoveOrCopyDataAndReplace(c, vr, new_data) ==
    DestroyAndReplace(
        IF RelocateByMove
        THEN UninitializedMoveN(c, vr.buffer, 0, vr.size, new_data.buffer, 0)
        ELSE UninitializedCopyN(c, vr.buffer, 0, vr.size, new_data.buffer, 0),
        vr, new_data)

\* a relocation by part that leaves no gap for the new element
RelocateByPartWithoutGap(c, vr, new_data, count) ==
    DestroyAndReplace(
        IF RelocateByMove
        THEN UninitializedMoveN(
                 UninitializedMoveN(c, vr.buffer, 0, count, new_data.buffer, 0),
                 vr.buffer, count, vr.size - count, new_data.buffer, count)
        ELSE UninitializedCopyN(
                 UninitializedCopyN(c, vr.buffer, 0, count, new_data.buffer, 0),
                 vr.buffer, count, vr.size - count, new_data.buffer, count),
        vr, new_data)

\* a relocation by part that, when a copy throws, destroys size_ + 1 slots of
\* the new region whether or not they were constructed
RelocateByPartDestroysAllOnThrow(c, vr, new_data, count) ==
    Bind(IF RelocateByMove
         THEN UninitializedMoveN(
                  UninitializedMoveN(c, vr.buffer, 0, count, new_data.buffer, 0),
                  vr.buffer, count, vr.size - count, new_data.buffer, count + 1)
         ELSE UninitializedCopyN(
                  UninitializedCopyN(c, vr.buffer, 0, count, new_data.buffer, 0),
                  vr.buffer, count, vr.size - count, new_data.buffer, count + 1),
         LAMBDA c1 :
    IF c1.ok THEN DestroyAndReplace(c1, vr, new_data)
    ELSE [c |-> DestroyN(c1, new_data.buffer, 0, vr.size + 1),
          vr |-> vr, new_data |-> new_data])

\* void Vector::MoveOrCopyDataByPartAndReplace(RawMemory<T> &&new_data, size_t count)
MoveOrCopyDataByPartAndReplace(c, vr, new_data, count) ==
    DestroyAndReplace(
        IF RelocateByMove
        THEN UninitializedMoveN(
                 UninitializedMoveN(c, vr.buffer, 0, count, new_data.buffer, 0),
                 vr.buffer, count, vr.size - count, new_data.buffer, count + 1)
        ELSE UninitializedCopyN(
                 UninitializedCopyN(c, vr.buffer, 0, count, new_data.buffer, 0),
                 vr.buffer, count, vr.size - count, new_data.buffer, count + 1),
        vr, new_data)

\* void Vector::Reserve(size_t new_capacity)
Reserve(c, vr, new_capacity) ==
    IF new_capacity <= vr.capacity THEN [c |-> c, vr |-> vr]
    ELSE Bind(RawMemoryCtor(c, new_capacity), LAMBDA tmp :
         Bind(MoveOrCopyDataAndReplace(tmp.c, vr, tmp.rm), LAMBDA r :
         [c |-> RawMemoryDtor(r.c, r.new_data), vr |-> r.vr]))

\* a Resize that shrinks by lowering size_ and destroys nothing
ResizeWithoutDestroy(c, vr, new_size) ==
    IF new_size <= vr.size
    THEN [c |-> c, vr |-> [vr EXCEPT !.size = new_size]]
    ELSE Bind(Reserve(c, vr, new_size), LAMBDA r :
         Bind(UninitializedValueConstructN(r.c, r.vr.buffer, vr.size, new_size - vr.size),
              LAMBDA c1 :
         [c |-> c1, vr |-> IF c1.ok THEN [r.vr EXCEPT !.size = new_size] ELSE r.vr]))

\* void Vector::Resize(size_t new_size)
Resize(c, vr, new_size) ==
    IF new_size <= vr.size
    THEN [c |-> DestroyN(c, vr.buffer, new_size, vr.size - new_size),
          vr |-> [vr EXCEPT !.size = new_size]]
    ELSE Bind(Reserve(c, vr, new_size), LAMBDA r :
         Bind(UninitializedValueConstructN(r.c, r.vr.buffer, vr.size, new_size - vr.size),
              LAMBDA c1 :
         [c |-> c1, vr |-> IF c1.ok THEN [r.vr EXCEPT !.size = new_size] ELSE r.vr]))

NoRet == [buffer |-> NULL, offset |-> 0]

\* a growth policy that adds one slot instead of doubling
GrownCapacityByOne(size) == size + 1

GrownCapacity(size) == IF size = 0 THEN 1 ELSE size * 2

\* the temporary T(std::forward<Args>(args)...) of an expression
Temporary(c) == IF ~c.ok THEN c ELSE Tick(c)

\* what a call that adds one element returns: the iterator to slot count
Added(r, vr, count) ==
    IF ~r.c.ok THEN [c |-> r.c, vr |-> r.vr, ret |-> NoRet]
    ELSE [c |-> r.c,
          vr |-> [r.vr EXCEPT !.size = vr.size + 1],
          ret |-> [buffer |-> r.vr.buffer, offset |-> count]]

\* a growing EmplaceBack that relocates the old elements first
EmplaceBackGrowRelocatesFirst(c, vr, x) ==
    Bind(RawMemoryCtor(c, GrownCapacity(vr.size)), LAMBDA new_data :
    Bind(MoveOrCopyDataAndReplace(new_data.c, vr, new_data.rm), LAMBDA r :
    [c |-> RawMemoryDtor(ConstructAt(r.c, r.vr.buffer, vr.size, x, TRUE), r.new_data),
     vr |-> r.vr]))

\* EmplaceBack with size_ == Capacity(): the new element first, then the old ones
EmplaceBackGrow(c, vr, x) ==
    Bind(RawMemoryCtor(c, GrownCapacity(vr.size)), LAMBDA new_data :
    Bind(ConstructAt(new_data.c, new_data.rm.buffer, vr.size, x, TRUE), LAMBDA c1 :
    Bind(MoveOrCopyDataAndReplace(c1, vr, new_data.rm), LAMBDA r :
    [c |-> RawMemoryDtor(r.c, r.new_data), vr |-> r.vr])))

\* T &Vector::EmplaceBack(Args &&...args); x is the value the arguments build
EmplaceBack(c, vr, x) ==
    Added(IF vr.size = vr.capacity THEN EmplaceBackGrow(c, vr, x)
          ELSE [c |-> ConstructAt(c, vr.buffer, vr.size, x, TRUE), vr |-> vr],
          vr, vr.size)

\* void Vector::PopBack()
PopBack(c, vr) ==
    [c |-> DestroyN(c, vr.buffer, vr.size - 1, 1),
     vr |-> [vr EXCEPT !.size = vr.size - 1]]

\* the path Emplace takes for pos = begin() + count
EmplacePath(vr, count) ==
    IF count = vr.size THEN "end"
    ELSE IF vr.size = vr.capacity THEN "grow" ELSE "spare"

\* Emplace with size_ == Capacity(), pos # end()
EmplaceGrow(c, vr, count, x) ==
    Bind(RawMemoryCtor(c, GrownCapacity(vr.size)), LAMBDA new_data :
    Bind(ConstructAt(new_data.c, new_data.rm.buffer, count, x, TRUE), LAMBDA c1 :
    Bind(MoveOrCopyDataByPartAndReplace(c1, vr, new_data.rm, count), LAMBDA r :
    [c |-> RawMemoryDtor(r.c, r.new_data), vr |-> r.vr])))

\* Emplace with spare capacity, pos # end(): the last element moves into the
\* raw slot, the rest shifts, a temporary is built and move-assigned into place
EmplaceSpare(c, vr, count, x) ==
    [c |-> AssignAt(
               Temporary(
                   MoveBackward(
                       MoveConstruct(c, vr.buffer, vr.size, vr.buffer, vr.size - 1),
                       vr.buffer, count, vr.size - 1, vr.size)),
               vr.buffer, count, x, MoveThrows),
     vr |-> vr]

\* iterator Vector::Emplace(const_iterator pos, Args &&...args)
Emplace(c, vr, count, x) ==
    IF count = vr.size THEN EmplaceBack(c, vr, x)
    ELSE Added(IF vr.size = vr.capacity THEN EmplaceGrow(c, vr, count, x)
               ELSE EmplaceSpare(c, vr, count, x),
               vr, count)

\* Emplace with spare capacity, pos # end(), where args is a reference to the
\* element in slot i of this Vector: the temporary is built from what slot i
\* holds once the elements have been shifted
EmplaceSpareOfElement(c, vr, count, i) ==
    Bind(MoveBackward(
             MoveConstruct(c, vr.buffer, vr.size, vr.buffer, vr.size - 1),
             vr.buffer, count, vr.size - 1, vr.size), LAMBDA c1 :
    [c |-> AssignAt(Temporary(c1), vr.buffer, count, Get(c1, vr.buffer, i), MoveThrows),
     vr |-> vr])

\* Emplace(pos, (*this)[i]): at the end and when growing, the new element is
\* built from slot i before anything else is touched
EmplaceOfElement(c, vr, count, i) ==
    IF count = vr.size \/ vr.size = vr.capacity
    THEN Emplace(c, vr, count, Get(c, vr.buffer, i))
    ELSE Added(EmplaceSpareOfElement(c, vr, count, i), vr, count)

\* an Erase that returns end() - count
ErasePopReturnsBefore(p, count) ==
    [c |-> p.c, vr |-> p.vr,
     ret |-> [buffer |-> p.vr.buffer, offset |-> p.vr.size - count]]

\* the end of Erase: PopBack() and return end() - count + 1
ErasePop(p, count) ==
    [c |-> p.c, vr |-> p.vr,
     ret |-> [buffer |-> p.vr.buffer, offset |-> p.vr.size - count + 1]]

\* an Erase that shifts from one slot too far to the right
EraseShiftsFromNext(c, vr, k) ==
    Bind(vr.size - k, LAMBDA count :
    Bind(StdMove(c, vr.buffer, vr.size - count + 2, vr.size, vr.size - count + 1),
         LAMBDA c1 :
    IF ~c1.ok THEN [c |-> c1, vr |-> vr, ret |-> NoRet]
    ELSE ErasePop(PopBack(c1, vr), count)))

\* iterator Vector::Erase(const_iterator pos), pos = begin() + k
Erase(c, vr, k) ==
    Bind(vr.size - k, LAMBDA count :
    Bind(StdMove(c, vr.buffer, vr.size - count + 1, vr.size, vr.size - count),
         LAMBDA c1 :
    IF ~c1.ok THEN [c |-> c1, vr |-> vr, ret |-> NoRet]
    ELSE ErasePop(PopBack(c1, vr), count)))

\* a constructor that allocates size slots and then fills them: if filling
\* throws, the member data_ is destroyed and there is no Vector
Constructed(c, rm, size) ==
    IF ~c.ok THEN [c |-> RawMemoryDtor(c, rm), vr |-> NoVector]
    ELSE [c |-> c, vr |-> [WithData(DefaultVector, rm) EXCEPT !.size = size]]

\* explicit Vector(size_t size)
SizedCtor(c, size) ==
    Bind(RawMemoryCtor(c, size), LAMBDA data :
    Constructed(UninitializedValueConstructN(data.c, data.rm.buffer, 0, size),
                data.rm, size))

\* a copy constructor that copies the members: both Vectors get one region
CopyCtorShallow(c, other) == [c |-> c, vr |-> other]

\* Vector(const Vector &other)
CopyCtor(c, other) ==
    Bind(RawMemoryCtor(c, other.size), LAMBDA data :
    Constructed(UninitializedCopyN(data.c, other.buffer, 0, other.size,
                                   data.rm.buffer, 0),
                data.rm, other.size))

\* a move constructor that copies the members and leaves the source as it was
MoveCtorKeepsSource(c, other) == [c |-> c, this |-> other, other |-> other]

\* Vector(Vector &&other)
MoveCtor(c, other) == VectorSwap(c, DefaultVector, other, FALSE)

\* ~Vector()
VectorDtor(c, vr) ==
    RawMemoryDtor(DestroyN(c, vr.buffer, 0, vr.size), Data(vr))

\* operator=(const Vector &) with rhs.size_ > Capacity(): copy and swap
CopyAssignRealloc(c, this, rhs) ==
    Bind(CopyCtor(c, rhs), LAMBDA rhs_copy :
    IF ~rhs_copy.c.ok THEN [c |-> rhs_copy.c, vr |-> this]
    ELSE Bind(VectorSwap(rhs_copy.c, this, rhs_copy.vr, FALSE), LAMBDA sw :
         [c |-> VectorDtor(sw.c, sw.other), vr |-> sw.this]))

\* an in-place copy assignment that assigns over the old elements only
CopyAssignLongerAssignsOnly(c, this, rhs) ==
    CopyN(c, rhs.buffer, 0, this.size, this.buffer, 0)

\* operator=(const Vector &) in place, rhs.size_ >= size_
CopyAssignLonger(c, this, rhs) ==
    UninitializedCopyN(CopyN(c, rhs.buffer, 0, this.size, this.buffer, 0),
                       rhs.buffer, this.size, rhs.size - this.size,
                       this.buffer, this.size)

\* operator=(const Vector &) in place, rhs.size_ < size_
CopyAssignShorter(c, this, rhs) ==
    Bind(CopyN(c, rhs.buffer, 0, rhs.size, this.buffer, 0), LAMBDA c1 :
    IF ~c1.ok THEN c1
    ELSE DestroyN(c1, this.buffer, rhs.size, this.size - rhs.size))

CopyAssignInPlace(c, this, rhs) ==
    Bind(IF rhs.size >= this.size THEN CopyAssignLonger(c, this, rhs)
         ELSE CopyAssignShorter(c, this, rhs), LAMBDA c1 :
    [c |-> c1, vr |-> IF c1.ok THEN [this EXCEPT !.size = rhs.size] ELSE this])

\* the branch operator=(const Vector &) takes
CopyAssignPath(this, rhs, same) ==
    IF same THEN "self"
    ELSE IF rhs.size > this.capacity THEN "realloc"
    ELSE IF rhs.size >= this.size THEN "longer" ELSE "shorter"

\* a copy assignment that always copies and swaps
CopyAssignmentAlwaysCopies(c, this, rhs, same) ==
    IF same THEN [c |-> c, vr |-> this]
    ELSE CopyAssignRealloc(c, this, rhs)

\* Vector &operator=(const Vector &rhs)
CopyAssignment(c, this, rhs, same) ==
    IF same THEN [c |-> c, vr |-> this]
    ELSE IF rhs.size > this.capacity THEN CopyAssignRealloc(c, this, rhs)
    ELSE CopyAssignInPlace(c, this, rhs)

\* a move assignment that destroys what this held and empties rhs
MoveAssignmentReleases(c, this, rhs, same) ==
    IF same THEN [c |-> c, this |-> this, other |-> this]
    ELSE [c |-> VectorDtor(c, this), this |-> rhs, other |-> DefaultVector]

\* Vector &operator=(Vector &&rhs)
MoveAssignment(c, this, rhs, same) ==
    IF same THEN [c |-> c, this |-> this, other |-> this]
    ELSE VectorSwap(c, this, rhs, FALSE)

\* ------------------------------------------------------------ the program
\* what a caller can observe of every Vector: Size(), Capacity(), begin() and
\* the values of operator[]
Snapshot(h, V) ==
    [v \in Vecs |-> [alive |-> V[v].alive, buffer |-> V[v].buffer,
                     capacity |-> V[v].capacity, size |-> V[v].size,
                     vals |-> Contents(h, V[v])]]

NoChain == [path |-> "", vals |-> <<>>]

\* v.Erase(v.begin() + k) called on what v.Insert(v.begin() + k, x) just returned
FollowsInsert(op, v, k) ==
    op = "Erase" /\ last.op = "Insert" /\ ~last.fail /\ last.v = v /\ last.k = k

\* The record of a call: its arguments, the path it took, whether it threw (and
\* which of its calls of T did), what it returned, what the Vectors were before
\* it and, for an Erase that follows an Insert at the same place, the path and
\* the values before that Insert.
Call(op, v, o, k, x, c, path, ret) ==
    [op |-> op, v |-> v, o |-> o, k |-> k, x |-> x, fail |-> ~c.ok,
     thrown |-> IF c.ok THEN 0 ELSE c.n,
     path |-> path, ret |-> ret, pre |-> Snapshot(heap, vec),
     chain |-> IF FollowsInsert(op, v, k)
               THEN [path |-> last.path, vals |-> last.pre[v].vals]
               ELSE NoChain]

\* no call is being looked at
Idle ==
    [op |-> "idle", v |-> "a", o |-> "a", k |-> 0, x |-> 0, fail |-> FALSE,
     thrown |-> 0, path |-> "", ret |-> NoRet,
     pre |-> [v \in Vecs |-> [alive |-> FALSE, buffer |-> NULL, capacity |-> 0,
                              size |-> 0, vals |-> <<>>]],
     chain |-> NoChain]

TotalCapacity(V) == V["a"].capacity + V["b"].capacity

\* A call starts when the caller is done with the one before, or it is the
\* Erase of what an Insert just returned.  The run ends with the first
\* exception that leaves a call (nothing here catches one), so the state a
\* failed call leaves is the last one.
Ready(op, v, k) == last.op = "idle" \/ FollowsInsert(op, v, k)

\* the state a call leaves: the fuse either was not set or has burnt
Commit(c, V, call) ==
    /\ c.f = 0
    /\ TotalCapacity(V) <= MaxCap
    /\ heap' = c.heap
    /\ err' = c.err
    /\ vec' = V
    /\ last' = call
    /\ UNCHANGED tkind

Start(f) == Ctx(heap, {}, f)

\* Vector a; and storage for a second Vector, b, not yet constructed
Init ==
    /\ heap = [r \in Regions |-> FreeRegion]
    /\ vec = [v \in Vecs |-> IF v = "a" THEN DefaultVector ELSE NoVector]
    /\ err = {}
    /\ tkind \in Kinds
    /\ last = Idle

\* The caller is done with the result of a call that returned.
Return ==
    /\ last.op # "idle"
    /\ ~last.fail
    /\ last' = Idle
    /\ err' = {}
    /\ UNCHANGED <<heap, vec, tkind>>

DoDefaultCtor(v) ==
    /\ Ready("Vector()", v, 0)
    /\ ~vec[v].alive
    /\ Commit(Start(0), [vec EXCEPT ![v] = DefaultVector],
              Call("Vector()", v, v, 0, 0, Start(0), "", NoRet))

DoSizedCtor(v, n) ==
    /\ Ready("Vector(n)", v, 0)
    /\ ~vec[v].alive
    /\ \E f \in Fuses(n) : \E r \in {SizedCtor(Start(f), n)} :
         Commit(r.c, [vec EXCEPT ![v] = r.vr],
                Call("Vector(n)", v, v, n, 0, r.c, "", NoRet))

DoCopyCtor(v, o) ==
    /\ Ready("Vector(const&)", v, 0)
    /\ ~vec[v].alive /\ vec[o].alive
    /\ \E f \in Fuses(vec[o].size) : \E r \in {CopyCtor(Start(f), vec[o])} :
         Commit(r.c, [vec EXCEPT ![v] = r.vr],
                Call("Vector(const&)", v, o, 0, 0, r.c, "", NoRet))

DoMoveCtor(v, o) ==
    /\ Ready("Vector(&&)", v, 0)
    /\ ~vec[v].alive /\ vec[o].alive
    /\ \E r \in {MoveCtor(Start(0), vec[o])} :
         Commit(r.c, [vec EXCEPT ![v] = r.this, ![o] = r.other],
                Call("Vector(&&)", v, o, 0, 0, r.c, "", NoRet))

DoDtor(v) ==
    /\ Ready("~Vector", v, 0)
    /\ vec[v].alive
    /\ \E c \in {VectorDtor(Start(0), vec[v])} :
         Commit(c, [vec EXCEPT ![v] = NoVector],
                Call("~Vector", v, v, 0, 0, c, "", NoRet))

DoCopyAssignment(v, o) ==
    /\ Ready("=(const&)", v, 0)
    /\ vec[v].alive /\ vec[o].alive
    /\ \E f \in Fuses(vec[o].size) :
       \E r \in {CopyAssignment(Start(f), vec[v], vec[o], v = o)} :
         Commit(r.c, [vec EXCEPT ![v] = r.vr],
                Call("=(const&)", v, o, 0, 0, r.c,
                     CopyAssignPath(vec[v], vec[o], v = o), NoRet))

DoMoveAssignment(v, o) ==
    /\ Ready("=(&&)", v, 0)
    /\ vec[v].alive /\ vec[o].alive
    /\ \E r \in {MoveAssignment(Start(0), vec[v], vec[o], v = o)} :
         Commit(r.c, [vec EXCEPT ![o] = r.other, ![v] = r.this],
                Call("=(&&)", v, o, 0, 0, r.c, IF v = o THEN "self" ELSE "", NoRet))

DoSwap(v, o) ==
    /\ Ready("Swap", v, 0)
    /\ vec[v].alive /\ vec[o].alive
    /\ \E r \in {VectorSwap(Start(0), vec[v], vec[o], v = o)} :
         Commit(r.c, [vec EXCEPT ![o] = r.other, ![v] = r.this],
                Call("Swap", v, o, 0, 0, r.c, IF v = o THEN "self" ELSE "", NoRet))

DoReserve(v, n) ==
    /\ Ready("Reserve", v, 0)
    /\ vec[v].alive
    /\ \E f \in Fuses(vec[v].size) : \E r \in {Reserve(Start(f), vec[v], n)} :
         Commit(r.c, [vec EXCEPT ![v] = r.vr],
                Call("Reserve", v, v, n, 0, r.c,
                     IF n <= vec[v].capacity THEN "noop" ELSE "grow", NoRet))

DoResize(v, n) ==
    /\ Ready("Resize", v, 0)
    /\ vec[v].alive
    /\ \E f \in Fuses(vec[v].size + n) : \E r \in {Resize(Start(f), vec[v], n)} :
         Commit(r.c, [vec EXCEPT ![v] = r.vr],
                Call("Resize", v, v, n, 0, r.c,
                     IF n <= vec[v].size THEN "shrink" ELSE "extend", NoRet))

\* void PushBack(const T &value): EmplaceBack(value)
DoPushBack(v, x) ==
    /\ Ready("PushBack", v, 0)
    /\ vec[v].alive
    /\ \E f \in Fuses(vec[v].size + 1) : \E r \in {EmplaceBack(Start(f), vec[v], x)} :
         Commit(r.c, [vec EXCEPT ![v] = r.vr],
                Call("PushBack", v, v, vec[v].size, x, r.c,
                     IF vec[v].size = vec[v].capacity THEN "grow" ELSE "spare", r.ret))

DoPopBack(v) ==
    /\ Ready("PopBack", v, 0)
    /\ vec[v].alive
    /\ vec[v].size > 0
    /\ \E r \in {PopBack(Start(0), vec[v])} :
         Commit(r.c, [vec EXCEPT ![v] = r.vr],
                Call("PopBack", v, v, 0, 0, r.c, "", NoRet))

\* iterator Insert(const_iterator pos, const T &value): Emplace(pos, value)
DoInsert(v, k, x) ==
    /\ Ready("Insert", v, k)
    /\ vec[v].alive
    /\ k <= vec[v].size
    /\ \E f \in Fuses(vec[v].size + 2) : \E r \in {Emplace(Start(f), vec[v], k, x)} :
         Commit(r.c, [vec EXCEPT ![v] = r.vr],
                Call("Insert", v, v, k, x, r.c, EmplacePath(vec[v], k), r.ret))

DoErase(v, k) ==
    /\ Ready("Erase", v, k)
    /\ vec[v].alive
    /\ k < vec[v].size
    /\ \E f \in Fuses(vec[v].size) : \E r \in {Erase(Start(f), vec[v], k)} :
         Commit(r.c, [vec EXCEPT ![v] = r.vr],
                Call("Erase", v, v, k, 0, r.c, "", r.ret))

\* v.Insert(v.begin() + k, v[i]): the value is a reference into v itself
DoInsertOfElement(v, k, i) ==
    /\ Ready("Insert(v[i])", v, k)
    /\ vec[v].alive
    /\ k <= vec[v].size
    /\ i < vec[v].size
    /\ \E f \in Fuses(vec[v].size + 2) :
       \E r \in {EmplaceOfElement(Start(f), vec[v], k, i)} :
         Commit(r.c, [vec EXCEPT ![v] = r.vr],
                Call("Insert(v[i])", v, v, k, i, r.c, EmplacePath(vec[v], k), r.ret))

\* the calls on one Vector
Mutators(V) ==
    \/ \E v \in V, n \in 0..MaxCap : DoReserve(v, n)
    \/ \E v \in V, n \in 0..MaxCap : DoResize(v, n)
    \/ \E v \in V, x \in Values : DoPushBack(v, x)
    \/ \E v \in V : DoPopBack(v)
    \/ \E v \in V, k \in 0..MaxCap, x \in Values : DoInsert(v, k, x)
    \/ \E v \in V, k \in 0..MaxCap : DoErase(v, k)

\* construction, destruction and the calls on two Vectors
Lifecycle ==
    \/ \E v \in Vecs : DoDefaultCtor(v)
    \/ \E v \in Vecs, n \in 0..MaxCap : DoSizedCtor(v, n)
    \/ \E v \in Vecs, o \in Vecs : DoCopyCtor(v, o)
    \/ \E v \in Vecs, o \in Vecs : DoMoveCtor(v, o)
    \/ \E v \in Vecs : DoDtor(v)
    \/ \E v \in Vecs, o \in Vecs : DoCopyAssignment(v, o)
    \/ \E v \in Vecs, o \in Vecs : DoMoveAssignment(v, o)
    \/ \E v \in Vecs, o \in Vecs : DoSwap(v, o)

Next == Mutators(Vecs) \/ Lifecycle \/ Return

Spec == Init /\ [][Next]_vars

\* a default-constructed Vector and nothing but PushBack and PopBack on it
NextPush ==
    \/ \E x \in Values : DoPushBack("a", x)
    \/ DoPopBack("a")
    \/ Return

SpecPush == Init /\ [][NextPush]_vars

\* one Vector, its modifiers, and Insert of one of its own elements
NextOfElement ==
    \/ Mutators({"a"})
    \/ \E k \in 0..MaxCap, i \in 0..MaxCap : DoInsertOfElement("a", k, i)
    \/ Return

SpecOfElement == Init /\ [][NextOfElement]_vars

\* ------------------------------------------------- RawMemory on its own
\* The objects a and b as RawMemory<T> owners: buffer_ and capacity_, no elements.
Owner(rm) == WithData(DefaultVector, rm)

\* RawMemory<T> v(n)
DoRawCtor(v, n) ==
    /\ Ready("RawMemory(n)", v, 0)
    /\ ~vec[v].alive
    /\ \E r \in {RawMemoryCtor(Start(0), n)} :
         Commit(r.c, [vec EXCEPT ![v] = Owner(r.rm)],
                Call("RawMemory(n)", v, v, n, 0, r.c, "", NoRet))

\* RawMemory<T> v(std::move(o))
DoRawMoveCtor(v, o) ==
    /\ Ready("RawMemory(&&)", v, 0)
    /\ ~vec[v].alive /\ vec[o].alive
    /\ \E m \in {RawMemoryMoveCtor(Data(vec[o]))} :
         Commit(Start(0), [vec EXCEPT ![v] = Owner(m.this), ![o] = Owner(m.other)],
                Call("RawMemory(&&)", v, o, 0, 0, Start(0), "", NoRet))

\* v = std::move(o)
DoRawMoveAssign(v, o) ==
    /\ Ready("RawMemory=(&&)", v, 0)
    /\ vec[v].alive /\ vec[o].alive
    /\ \E m \in {RawMemoryMoveAssign(Start(0), Data(vec[v]), Data(vec[o]), v = o)} :
         Commit(m.c, [vec EXCEPT ![o] = Owner(m.rhs), ![v] = Owner(m.this)],
                Call("RawMemory=(&&)", v, o, 0, 0, m.c,
                     IF v = o THEN "self"
                     ELSE IF vec[v].buffer = NULL THEN "empty" ELSE "holding", NoRet))

\* v.Swap(o)
DoRawSwap(v, o) ==
    /\ Ready("RawMemory::Swap", v, 0)
    /\ vec[v].alive /\ vec[o].alive
    /\ \E m \in {RawMemorySwap(Data(vec[v]), Data(vec[o]))} :
         Commit(Start(0), [vec EXCEPT ![o] = Owner(m.other), ![v] = Owner(m.this)],
                Call("RawMemory::Swap", v, o, 0, 0, Start(0), "", NoRet))

\* ~RawMemory()
DoRawDtor(v) ==
    /\ Ready("~RawMemory", v, 0)
    /\ vec[v].alive
    /\ \E c \in {RawMemoryDtor(Start(0), Data(vec[v]))} :
         Commit(c, [vec EXCEPT ![v] = NoVector],
                Call("~RawMemory", v, v, 0, 0, c, "", NoRet))

NextRaw ==
    \/ \E v \in Vecs, n \in 0..MaxCap : DoRawCtor(v, n)
    \/ \E v \in Vecs, o \in Vecs : DoRawMoveCtor(v, o)
    \/ \E v \in Vecs, o \in Vecs : DoRawMoveAssign(v, o)
    \/ \E v \in Vecs, o \in Vecs : DoRawSwap(v, o)
    \/ \E v \in Vecs : DoRawDtor(v)
    \/ Return

SpecRaw == Init /\ [][NextRaw]_vars

\* ------------------------------------------------------------- the claims
Cur(v) == Snapshot(heap, vec)[v]

Pre(v) == last.pre[v]

Returned(op) == last.op = op /\ ~last.fail

BothAlive == \A v \in Vecs : vec[v].alive

InsertAt(s, n, k, x) ==
    [i \in 1..(n + 1) |-> IF i <= k THEN s[i] ELSE IF i = k + 1 THEN x ELSE s[i - 1]]

RemoveAt(s, n, k) ==
    [i \in 1..(n - 1) |-> IF i <= k THEN s[i] ELSE s[i + 1]]

\* the other Vector of a call on two
Partner(v) == IF v = last.v THEN last.o ELSE last.v

\* C1: from a default-constructed Vector, over PushBack and PopBack alone,
\* 0 <= Size() <= Capacity() at every point, Capacity() never decreases, the
\* growth from capacity 0 gives capacity 1 and every other growth at least
\* doubles the capacity.
C1_PushPopCapacity ==
    /\ \A v \in Vecs : 0 <= vec[v].size /\ vec[v].size <= vec[v].capacity
    /\ last.op \in {"PushBack", "PopBack"} =>
         /\ vec[last.v].capacity >= Pre(last.v).capacity
         /\ vec[last.v].capacity # Pre(last.v).capacity =>
              IF Pre(last.v).capacity = 0 THEN vec[last.v].capacity = 1
              ELSE vec[last.v].capacity >= 2 * Pre(last.v).capacity

\* a PushBack has grown a full Vector of capacity 2
C1_Witness ==
    /\ Returned("PushBack")
    /\ Pre(last.v).size = 2 /\ Pre(last.v).capacity = 2
    /\ vec[last.v].capacity = 4

\* C2 as stated: over every operation of a Vector that lives before and after
\* it, Capacity() does not decrease.
C2_CapacityNeverDecreases ==
    \A v \in Vecs :
        (last.op # "idle" /\ Pre(v).alive /\ vec[v].alive) =>
            vec[v].capacity >= Pre(v).capacity

\* C2 amended: Capacity() does not decrease over any operation but the ones
\* that hand storage over: move assignment and Swap leave each Vector with the
\* other's capacity, and the source of a move construction with capacity 0.
C2_CapacityExceptExchange ==
    \A v \in Vecs :
        (last.op # "idle" /\ Pre(v).alive /\ vec[v].alive) =>
            IF last.op \in {"=(&&)", "Swap"} /\ v \in {last.v, last.o}
            THEN vec[v].capacity = Pre(Partner(v)).capacity
            ELSE IF last.op = "Vector(&&)" /\ v = last.o
            THEN vec[v].capacity = 0
            ELSE vec[v].capacity >= Pre(v).capacity

\* a copy assignment has replaced a region by a larger one
C2_Witness ==
    /\ Returned("=(const&)")
    /\ last.path = "realloc"
    /\ Pre(last.v).capacity > 0
    /\ vec[last.v].capacity > Pre(last.v).capacity

\* C3 as stated: when a call on a Vector throws, the Vector has the size and
\* the values it had before the call.
C3_StrongGuarantee ==
    (last.fail /\ Pre(last.v).alive) =>
        /\ Cur(last.v).size = Pre(last.v).size
        /\ Cur(last.v).vals = Pre(last.v).vals

\* C4: a copy-constructed Vector has the size and the values of its source
\* and a region of its own; no two Vectors share a region, and a call leaves
\* every Vector it is not made on (the source of a copy included) as it was.
C4_CopyIsDeep ==
    /\ Returned("Vector(const&)") =>
         /\ Cur(last.v).size = Pre(last.o).size
         /\ Cur(last.v).vals = Pre(last.o).vals
    /\ BothAlive => (vec["a"].buffer # vec["b"].buffer \/ vec["a"].buffer = NULL)
    /\ \A w \in Vecs :
         (/\ last.op # "idle"
          /\ w # last.v
          /\ ~(last.op \in {"=(&&)", "Swap", "Vector(&&)"} /\ w = last.o))
         => Cur(w) = Pre(w)

\* one of two Vectors with the same values, as after a copy, has been inserted into
C4_Witness ==
    /\ Returned("Insert")
    /\ BothAlive
    /\ Pre("a").alive /\ Pre("b").alive
    /\ Pre("a").size >= 1
    /\ Pre("a").vals = Pre("b").vals
    /\ Cur("a").vals # Cur("b").vals

\* C5: after Vector v(std::move(o)), o has size 0 and capacity 0 and v has
\* the size, the capacity and the values o had.
C5_MoveCtor ==
    Returned("Vector(&&)") =>
        /\ Cur(last.o).size = 0
        /\ Cur(last.o).capacity = 0
        /\ Cur(last.v).size = Pre(last.o).size
        /\ Cur(last.v).capacity = Pre(last.o).capacity
        /\ Cur(last.v).vals = Pre(last.o).vals

\* a Vector with elements and spare capacity has been moved from
C5_Witness ==
    /\ Returned("Vector(&&)")
    /\ Pre(last.o).size >= 2
    /\ Pre(last.o).capacity > Pre(last.o).size

\* C6: v = std::move(o) with two Vectors exchanges region, capacity, size and
\* values; with v and o the same Vector it changes nothing.
C6_MoveAssign ==
    Returned("=(&&)") =>
        IF last.v = last.o THEN Cur(last.v) = Pre(last.v)
        ELSE Cur(last.v) = Pre(last.o) /\ Cur(last.o) = Pre(last.v)

\* two Vectors of different values and capacities have been move-assigned
C6_Witness ==
    /\ Returned("=(&&)")
    /\ last.v # last.o
    /\ Pre(last.v).size >= 1 /\ Pre(last.o).size >= 1
    /\ Pre(last.v).vals # Pre(last.o).vals
    /\ Pre(last.v).capacity # Pre(last.o).capacity

\* C7: Erase at offset k of what Insert at offset k just returned leaves the
\* values and the size the Vector had before the Insert, whichever path the
\* Insert took.
C7_InsertThenErase ==
    (Returned("Erase") /\ last.chain.path # "") =>
        /\ Cur(last.v).vals = last.chain.vals
        /\ Cur(last.v).size = Len(last.chain.vals)

\* an Insert in the middle that had to grow has been undone by Erase
C7_Witness ==
    /\ Returned("Erase")
    /\ last.chain.path = "grow"
    /\ last.k >= 1
    /\ Len(last.chain.vals) > last.k

\* C8: Insert of x at offset k into s gives s[0..k), x, s[k..size), a size one
\* larger and the iterator to offset k of the region the Vector now has.
C8_Insert ==
    Returned("Insert") =>
        /\ Cur(last.v).vals = InsertAt(Pre(last.v).vals, Pre(last.v).size, last.k, last.x)
        /\ Cur(last.v).size = Pre(last.v).size + 1
        /\ last.ret = [buffer |-> vec[last.v].buffer, offset |-> last.k]

\* an Insert in the middle of a full Vector has returned
C8_Witness ==
    /\ Returned("Insert")
    /\ last.path = "grow"
    /\ last.k >= 1
    /\ last.k < Pre(last.v).size

\* C9: Erase at offset k of s gives s[0..k), s[k+1..size), a size one smaller,
\* the same capacity and the iterator to offset k, which is end() when the last
\* element was erased.
C9_Erase ==
    Returned("Erase") =>
        /\ Cur(last.v).vals = RemoveAt(Pre(last.v).vals, Pre(last.v).size, last.k)
        /\ Cur(last.v).size = Pre(last.v).size - 1
        /\ Cur(last.v).capacity = Pre(last.v).capacity
        /\ last.ret = [buffer |-> vec[last.v].buffer, offset |-> last.k]
        /\ last.k = Pre(last.v).size - 1 => last.ret.offset = vec[last.v].size

\* an element with elements on both sides has been erased
C9_Witness ==
    /\ Returned("Erase")
    /\ last.k >= 1
    /\ last.k < Pre(last.v).size - 1

\* C10: Reserve(n) with n <= Capacity() changes nothing; with n > Capacity()
\* it makes the capacity at least n and keeps the size and the values.
C10_Reserve ==
    Returned("Reserve") =>
        IF last.k <= Pre(last.v).capacity THEN Cur(last.v) = Pre(last.v)
        ELSE /\ Cur(last.v).capacity >= last.k
             /\ Cur(last.v).size = Pre(last.v).size
             /\ Cur(last.v).vals = Pre(last.v).vals

\* a Reserve has moved two or more elements to a larger region
C10_Witness ==
    /\ Returned("Reserve")
    /\ last.path = "grow"
    /\ Pre(last.v).size >= 2

\* slot i of the region Vector v holds
Slot(v, i) == heap[vec[v].buffer].slots[i + 1]

\* C11: Resize(n) sets the size to n.  For n <= size the elements [0, n) keep
\* their values, the slots [n, size) hold no object any more and the capacity
\* is the same; for n > size the elements [0, size) keep their values and the
\* elements [size, n) are value-initialised.
C11_Resize ==
    Returned("Resize") =>
        /\ Cur(last.v).size = last.k
        /\ \A i \in 1..last.k :
             Cur(last.v).vals[i] = IF i <= Pre(last.v).size THEN Pre(last.v).vals[i]
                                   ELSE DefaultVal
        /\ last.k <= Pre(last.v).size =>
             /\ Cur(last.v).capacity = Pre(last.v).capacity
             /\ Cur(last.v).buffer = Pre(last.v).buffer
             /\ \A i \in last.k..(Pre(last.v).size - 1) : Slot(last.v, i) = NoObj
        /\ "destroy_raw" \notin err

\* a Vector of two elements, the first not a default one, has been extended
C11_Witness ==
    /\ Returned("Resize")
    /\ Pre(last.v).size >= 2
    /\ Pre(last.v).vals[1] # DefaultVal
    /\ last.k > Pre(last.v).size

\* every region in use is the region of a Vector
Owned ==
    \A r \in Regions : heap[r].live => \E v \in Vecs : vec[v].alive /\ vec[v].buffer = r

\* C12: when a copy assignment that needs a larger region throws, the target
\* has the region, capacity, size and values it had, the copies already made
\* in the temporary have been destroyed and the temporary's region released.
C12_CopyAssignReallocFails ==
    (last.op = "=(const&)" /\ last.path = "realloc" /\ last.fail) =>
        /\ Cur(last.v) = Pre(last.v)
        /\ Owned
        /\ err = {}

\* the copy of the second or a later element has thrown, the target not empty
C12_Witness ==
    /\ last.op = "=(const&)" /\ last.path = "realloc" /\ last.fail
    /\ last.thrown >= 2
    /\ Pre(last.v).size >= 1

\* C13: in a PushBack that has to grow, the new element is the first T that is
\* constructed; when that construction throws, the Vector has the region,
\* capacity, size and values it had, no element was touched and the new region
\* has been released.
C13_PushBackGrowNewElementFails ==
    (last.op = "PushBack" /\ last.path = "grow" /\ last.fail /\ last.thrown = 1) =>
        /\ Cur(last.v) = Pre(last.v)
        /\ Owned
        /\ err = {}

\* the new element of a PushBack to a full Vector of two or more has thrown
C13_Witness ==
    /\ last.op = "PushBack" /\ last.path = "grow" /\ last.fail
    /\ last.thrown = 1
    /\ Pre(last.v).size >= 2

\* no two objects hold one region
Unshared ==
    \A v \in Vecs, w \in Vecs :
        (v # w /\ vec[v].alive /\ vec[w].alive /\ vec[v].buffer = vec[w].buffer)
            => vec[v].buffer = NULL

\* every object that holds a region holds one that is in use, of its capacity
Holding ==
    \A v \in Vecs :
        (vec[v].alive /\ vec[v].buffer # NULL) =>
            heap[vec[v].buffer].live /\ heap[vec[v].buffer].cap = vec[v].capacity

\* C14 as stated: over the operations of RawMemory, no region is released
\* twice, none is left without an owner, and no owner holds a region that
\* has been released or that another owner holds.
C14_ReleasedOnce ==
    /\ "double_free" \notin err
    /\ Owned
    /\ Holding
    /\ Unshared

\* C15 as stated: when the relocation of the old elements throws in a PushBack
\* or an Insert that grows, every element constructed in the new region, the
\* new element included, has been destroyed when the region is released.
C15_RelocationFailureUnwinds ==
    (/\ last.op \in {"PushBack", "Insert"}
     /\ last.path = "grow"
     /\ last.fail
     /\ last.thrown >= 2)
    => (Owned /\ "leak" \notin err)

\* C16 as stated: after every call, returned or thrown, the slots [0, size) of
\* a Vector each hold a live element and the slots [size, capacity) hold none.
C16_SlotsInvariant ==
    \A v \in Vecs :
        vec[v].alive =>
            \A i \in 0..(vec[v].capacity - 1) :
                (i < vec[v].size) <=> (Slot(v, i) # NoObj)

C18_CopyAssignInPlace ==
    (Returned("=(const&)") /\ last.path \in {"self", "longer", "shorter"}) =>
        /\ Cur(last.v).capacity = Pre(last.v).capacity
        /\ Cur(last.v).buffer = Pre(last.v).buffer
        /\ Cur(last.v).size = Pre(last.o).size
        /\ Cur(last.v).vals = Pre(last.o).vals
        /\ Cur(last.o) = Pre(last.o)
        /\ last.path = "self" => Cur(last.v) = Pre(last.v)

\* a longer source with another first value has been assigned in place
C18_Witness ==
    /\ Returned("=(const&)")
    /\ last.path = "longer"
    /\ Pre(last.v).size >= 1
    /\ Pre(last.o).size > Pre(last.v).size
    /\ Pre(last.o).vals[1] # Pre(last.v).vals[1]

\* C19 as stated: v.Insert(v.begin() + k, v[i]) on s gives s[0..k), the value
\* s[i] had before the call, s[k..size), on every path (last.x is i here).
C19_InsertOfElement ==
    Returned("Insert(v[i])") =>
        Cur(last.v).vals =
            InsertAt(Pre(last.v).vals, Pre(last.v).size, last.k, Pre(last.v).vals[last.x + 1])

\* C20: over the calls of Vector that return, RawMemory's move assignment is
\* never applied to an owner that holds a region, no region is released
\* twice, every region in use is the region of exactly one Vector, and every
\* Vector that holds a region holds one in use, of its capacity.
C20_VectorReleasesOnce ==
    ~last.fail =>
        /\ "dangling_owner" \notin err
        /\ "double_free" \notin err
        /\ Owned
        /\ Holding
        /\ Unshared

\* two Vectors that both hold a region have been swapped
C20_Witness ==
    /\ Returned("Swap")
    /\ last.v # last.o
    /\ Pre(last.v).buffer # NULL
    /\ Pre(last.o).buffer # NULL

=============================================================================
